---- MODULE Spec2Model ----
(***************************************************************************)
(* Model of the Noah/Dog lever game: the game rules (lib/game-logic.ts),   *)
(* the persisted game state (lib/storage.ts), the useGameState hook        *)
(* (hooks/use-game-state.ts) and the GamePage handlers (app/page.tsx).     *)
(***************************************************************************)
EXTENDS Integers, Sequences, FiniteSets, TLC

VARIABLES
    storage,      \* localStorage['noahDogGameState']: <<>> (no item) or <<text>>
    cache,        \* React Query data under QUERY_KEY: <<>> (undefined) or <<GameState>>
    isSpinning,   \* useState(false) of GamePage
    result,       \* useState<SpinResult | null>: <<>> (null) or <<SpinResult>>
    lastOutcome,  \* useState<'win' | 'loss' | null>
    view,         \* values captured by the closures of the last committed render
    pending,      \* handleLeverPull calls suspended at the 2000 ms await, oldest first
    resolved,     \* history: spin resolutions completed since the last reset
    lastOp,       \* history: the operation that ran last
    updates,      \* history: updateWager and updateGameState calls made
    call,         \* a call of a pure function of game-logic.ts: arguments and return value
    inFlight      \* mutations whose mutationFn has run and whose onSuccess has not, oldest first

vars == <<storage, cache, isSpinning, result, lastOutcome, view, pending,
          resolved, lastOp, updates, call, inFlight>>
(***************************************************************************)
(* Bounds of the model.                                                    *)
(***************************************************************************)
MaxSpins == 2        \* lever pulls accepted while wins + losses + pending is below this
MaxPending == 2      \* suspended handleLeverPull calls
MaxUpdates == 1      \* updateWager and updateGameState calls
MaxMutations == 2    \* mutations issued to the hook one after the other
MaxLoads == 2        \* loadGameState calls in a row
MaxGames == 7        \* StatsDisplay is rendered with wins and losses in 0..MaxGames
RandomGrain == 24    \* Math.random() returns one of 0/RandomGrain .. (RandomGrain - 1)/RandomGrain
MaxArg == 3          \* pure functions are called with amounts in -MaxArg..MaxArg (and the page's amounts)

(***************************************************************************)
(* lib/storage.ts                                                          *)
(***************************************************************************)
DEFAULT_GAME_STATE == [wallet |-> 1000, wager |-> 50, wins |-> 0, losses |-> 0]

\* The fields of a GameState.
GameStateFields == {"wallet", "wager", "wins", "losses"}

\* A JavaScript value is [kind, members]: kind is "object", "null" or "number",
\* members holds one <<name, type, value>> for each property of an object.
NullValue == [kind |-> "null", members |-> {}]

\* The object a GameState is at run time.
ObjectOf(state) ==
    [kind |-> "object",
     members |-> { <<"wallet", "number", state.wallet>>, <<"wager", "number", state.wager>>,
                   <<"wins", "number", state.wins>>, <<"losses", "number", state.losses>> }]

\* The value of property name of an object that has it.
Member(value, name) == (CHOOSE m \in value.members : m[1] = name)[3]

\* `parsed as GameState`: the four fields of an object read as a GameState.
AsGameState(value) ==
    [wallet |-> Member(value, "wallet"), wager |-> Member(value, "wager"),
     wins |-> Member(value, "wins"), losses |-> Member(value, "losses")]

\* The text of a localStorage item is [syntax, value]: syntax is "json" (value
\* is what the text denotes), "garbage" (not JSON) or "empty" (the text '').
\* JSON.stringify of a GameState: the JSON text of its object.
JSONstringify(state) == [syntax |-> "json", value |-> ObjectOf(state)]

\* JSON.parse(text): the value a JSON text denotes, a SyntaxError otherwise.
JSONparse(text) ==
    IF text.syntax = "json" THEN [threw |-> FALSE, value |-> text.value]
                            ELSE [threw |-> TRUE, value |-> NullValue]

\* loadGameState() that never reads the item.
loadGameStateParsed_ignoresItem(store) == ObjectOf(DEFAULT_GAME_STATE)

\* loadGameState(), the value it returns: the default state when there is no
\* item or the item is '' (!saved) or JSON.parse throws, else the parsed value
\* as it is.
loadGameStateParsed(store) ==
    IF store = <<>> \/ store[1].syntax = "empty"
    THEN ObjectOf(DEFAULT_GAME_STATE)
    ELSE LET parsed == JSONparse(store[1])
         IN  IF parsed.threw THEN ObjectOf(DEFAULT_GAME_STATE) ELSE parsed.value

\* loadGameState() over a store that holds nothing or a saved GameState.
loadGameState(store) == AsGameState(loadGameStateParsed(store))

\* localStorage.setItem(STORAGE_KEY, text): it throws and stores nothing when
\* the quota is exceeded.
setItem(store, text, quotaExceeded) ==
    [store |-> IF quotaExceeded THEN store ELSE <<text>>, threw |-> quotaExceeded]

\* saveGameState(state) without its try/catch.
saveGameState_noCatch(store, state, quotaExceeded) ==
    LET written == setItem(store, JSONstringify(state), quotaExceeded)
    IN  [store |-> written.store, threw |-> written.threw]

\* saveGameState(state): the new content of the store; an error of setItem is
\* logged in the catch block and not thrown again.
saveGameState(store, state, quotaExceeded) ==
    LET written == setItem(store, JSONstringify(state), quotaExceeded)
    IN  [store |-> written.store, threw |-> FALSE]

\* clearGameState() removing another key.
clearGameState_otherKey == storage

\* clearGameState(): the new content of the store.
clearGameState == <<>>

(***************************************************************************)
(* lib/game-logic.ts                                                       *)
(***************************************************************************)
Outcomes == {"win", "loss"}
Types == {"noah", "dog"}
\* Math.floor(Math.random() * 12) + 1 for Math.random() = random / RandomGrain.
ImageIndexOf(random) == ((random * 12) \div RandomGrain) + 1

\* The image indexes generateSpinResult can draw.
ImageIndexes == { ImageIndexOf(random) : random \in 0..(RandomGrain - 1) }

\* JavaScript truthiness of a string.
Truthy(s) == s # ""

\* generateSpinResult() whose type is 'dog' whatever Math.random() returns.
generateSpinResult_alwaysDog(belowHalf, imageIndex) ==
    LET type == IF belowHalf THEN "dog" ELSE "dog"
        outcome == IF type = "dog" THEN "win" ELSE "loss"
        image == IF type = "noah" THEN <<"/noah/noah-", imageIndex, ".jpg">>
                                  ELSE <<"/dogs/dog-", imageIndex, ".jpg">>
    IN  [outcome |-> outcome, type |-> type, image |-> image]

\* generateSpinResult() that takes the image from the pool of the other type.
generateSpinResult_otherPool(belowHalf, imageIndex) ==
    LET type == IF belowHalf THEN "noah" ELSE "dog"
        outcome == IF type = "dog" THEN "win" ELSE "loss"
        image == IF type = "dog" THEN <<"/noah/noah-", imageIndex, ".jpg">>
                                 ELSE <<"/dogs/dog-", imageIndex, ".jpg">>
    IN  [outcome |-> outcome, type |-> type, image |-> image]

\* generateSpinResult(): belowHalf is Math.random() < 0.5, imageIndex is
\* Math.floor(Math.random() * 12) + 1.
generateSpinResult(belowHalf, imageIndex) ==
    LET type == IF belowHalf THEN "noah" ELSE "dog"
        outcome == IF type = "dog" THEN "win" ELSE "loss"
        image == IF type = "noah" THEN <<"/noah/noah-", imageIndex, ".jpg">>
                                  ELSE <<"/dogs/dog-", imageIndex, ".jpg">>
    IN  [outcome |-> outcome, type |-> type, image |-> image]

\* The other generateSpinResult of game-logic.ts (lines 14 to 27): 'noah' is the
\* win and the image paths start with /public.
generateSpinResultPublic(belowHalf, imageIndex) ==
    LET type == IF belowHalf THEN "noah" ELSE "dog"
        outcome == IF type = "noah" THEN "win" ELSE "loss"
        image == IF type = "noah" THEN <<"/public/noah/noah-", imageIndex, ".jpg">>
                                  ELSE <<"/public/dogs/dog-", imageIndex, ".jpg">>
    IN  [outcome |-> outcome, type |-> type, image |-> image]

\* calculatePayout(wager, outcome) that pays nothing.
calculatePayout_zero(wager, outcome) ==
    LET assigned == "win"
    IN  IF Truthy(assigned) THEN 0 ELSE -wager

\* calculatePayout(wager, outcome): the condition is the assignment
\* (outcome = 'win'), whose value is the assigned string.
calculatePayout(wager, outcome) ==
    LET assigned == "win"
    IN  IF Truthy(assigned) THEN wager ELSE -wager

\* canPlaceBet with the zero wager let through (>= for >).
canPlaceBet_zeroWager(wallet, wager) == wager >= 0 /\ wager <= wallet

canPlaceBet(wallet, wager) == wager > 0 /\ wager <= wallet

Max(a, b) == IF a >= b THEN a ELSE b
Min(a, b) == IF a <= b THEN a ELSE b

\* updateWallet that returns the sum without Math.max.
updateWallet_noClamp(current, change) ==
    LET newBalance == current + change
    IN  newBalance

updateWallet(current, change) ==
    LET newBalance == current + change
    IN  Max(0, newBalance)

(***************************************************************************)
(* hooks/use-game-state.ts                                                 *)
(***************************************************************************)
\* queryClient.getQueryData(QUERY_KEY) || DEFAULT_GAME_STATE, also the
\* gameState the hook returns.
GameStateOf(c) == IF c = <<>> THEN DEFAULT_GAME_STATE ELSE c[1]

\* processSpinMutation.mutationFn with the payout subtracted.
processSpinNewState_subtract(current, outcome, payout) ==
    [current EXCEPT !.wallet = current.wallet - payout,
                    !.wins = IF outcome = "win" THEN current.wins + 1 ELSE current.wins,
                    !.losses = IF outcome = "loss" THEN current.losses + 1 ELSE current.losses]

\* newState of processSpinMutation.mutationFn
processSpinNewState(current, outcome, payout) ==
    [current EXCEPT !.wallet = current.wallet + payout,
                    !.wins = IF outcome = "win" THEN current.wins + 1 ELSE current.wins,
                    !.losses = IF outcome = "loss" THEN current.losses + 1 ELSE current.losses]

\* newState of updateWagerMutation.mutationFn built on the default state.
updateWagerNewState_fromDefault(current, newWager) ==
    [DEFAULT_GAME_STATE EXCEPT !.wager = newWager]

\* newState of updateWagerMutation.mutationFn
updateWagerNewState(current, newWager) == [current EXCEPT !.wager = newWager]

\* A mutation whose mutationFn saves newState and returns it: onSuccess
\* (setQueryData) runs unless mutationFn threw.
Mutation(newState, quotaExceeded) ==
    LET saved == saveGameState(storage, newState, quotaExceeded)
    IN  /\ storage' = saved.store
        /\ cache' = IF saved.threw THEN cache ELSE <<newState>>

(***************************************************************************)
(* app/page.tsx, components/WalletDisplay.tsx                              *)
(***************************************************************************)
minWager == 100
maxWager == 1000
WagerStep == 100

\* What a render of GamePage captures in its closures and props.
Rendered(c, spinning) == [gameState |-> GameStateOf(c), isSpinning |-> spinning]

NoCall == [fn |-> "none", a |-> 0, b |-> "", ret |-> <<>>]

Init ==
    /\ storage = <<>>
    /\ cache = <<loadGameState(<<>>)>>
    /\ isSpinning = FALSE
    /\ result = <<>>
    /\ lastOutcome = "null"
    /\ view = Rendered(<<DEFAULT_GAME_STATE>>, FALSE)
    /\ pending = <<>>
    /\ resolved = 0
    /\ lastOp = "init"
    /\ call = NoCall
    /\ updates = 0
    /\ inFlight = <<>>

\* React commits a render: closures and props take the current values.
Render ==
    /\ view # Rendered(cache, isSpinning)
    /\ view' = Rendered(cache, isSpinning)
    /\ lastOp' = "render"
    /\ UNCHANGED <<storage, cache, isSpinning, result, lastOutcome, pending, resolved, call, updates, inFlight>>

\* handleLeverPull whose step 1 alerts and does not return.
HandleLeverPullRejected_noReturn ==
    /\ ~canPlaceBet(view.gameState.wallet, view.gameState.wager)
    /\ ~view.isSpinning
    /\ Len(pending) < MaxPending
    /\ resolved + Len(pending) < MaxSpins
    /\ isSpinning' = TRUE
    /\ lastOutcome' = "null"
    /\ result' = <<>>
    /\ pending' = Append(pending, [wager |-> view.gameState.wager])
    /\ lastOp' = "leverRejected"
    /\ UNCHANGED <<storage, cache, view, resolved, call, updates, inFlight>>

\* handleLeverPull, step 1 fails: alert and return.
HandleLeverPullRejected ==
    /\ ~canPlaceBet(view.gameState.wallet, view.gameState.wager)
    /\ lastOp' = "leverRejected"
    /\ UNCHANGED <<storage, cache, isSpinning, result, lastOutcome, view, pending, resolved, call, updates, inFlight>>

\* handleLeverPull, isSpinning of the closure is true: return.
HandleLeverPullIgnored ==
    /\ canPlaceBet(view.gameState.wallet, view.gameState.wager)
    /\ view.isSpinning
    /\ lastOp' = "leverIgnored"
    /\ UNCHANGED <<storage, cache, isSpinning, result, lastOutcome, view, pending, resolved, call, updates, inFlight>>

\* handleLeverPull with step 3 of the draft, placeBet({wager}), in place: the
\* wager is deducted and saved before the await.
HandleLeverPullAccepted_placeBet ==
    /\ canPlaceBet(view.gameState.wallet, view.gameState.wager)
    /\ ~view.isSpinning
    /\ Len(pending) < MaxPending
    /\ GameStateOf(cache).wins + GameStateOf(cache).losses + Len(pending) < MaxSpins
    /\ resolved + Len(pending) < MaxSpins
    /\ isSpinning' = TRUE
    /\ lastOutcome' = "null"
    /\ result' = <<>>
    /\ pending' = Append(pending, [wager |-> view.gameState.wager])
    /\ LET newState == [GameStateOf(cache) EXCEPT
                           !.wallet = GameStateOf(cache).wallet - view.gameState.wager]
       IN  Mutation(newState, FALSE)
    /\ lastOp' = "leverAccepted"
    /\ UNCHANGED <<view, resolved, call, updates, inFlight>>

\* handleLeverPull up to the await: the spin starts, the call is suspended
\* with the gameState of its closure.
HandleLeverPullAccepted ==
    /\ canPlaceBet(view.gameState.wallet, view.gameState.wager)
    /\ ~view.isSpinning
    /\ Len(pending) < MaxPending
    /\ GameStateOf(cache).wins + GameStateOf(cache).losses + Len(pending) < MaxSpins
    /\ resolved + Len(pending) < MaxSpins
    /\ isSpinning' = TRUE
    /\ lastOutcome' = "null"
    /\ result' = <<>>
    /\ pending' = Append(pending, [wager |-> view.gameState.wager])
    /\ lastOp' = "leverAccepted"
    /\ UNCHANGED <<storage, cache, view, resolved, call, updates, inFlight>>

HandleLeverPull ==
    \/ HandleLeverPullRejected
    \/ HandleLeverPullIgnored
    \/ HandleLeverPullAccepted

\* handleLeverPull after the await without setIsSpinning(false).
ResolveSpinWrite_staysSpinning(quotaExceeded) ==
    /\ pending # <<>>
    /\ \E belowHalf \in BOOLEAN, imageIndex \in ImageIndexes :
         LET spinResult == generateSpinResult(belowHalf, imageIndex)
             payout == calculatePayout(Head(pending).wager, spinResult.outcome)
             newState == processSpinNewState(GameStateOf(cache), spinResult.outcome, payout)
         IN  /\ result' = <<spinResult>>
             /\ lastOutcome' = spinResult.outcome
             /\ isSpinning' = isSpinning
             /\ Mutation(newState, quotaExceeded)
    /\ pending' = Tail(pending)
    /\ resolved' = resolved + 1
    /\ lastOp' = "processSpin"
    /\ UNCHANGED <<view, call, updates, inFlight>>

\* handleLeverPull after the await (steps 5 to 9), with the processSpin
\* mutation it starts: mutationFn, then onSuccess.
ResolveSpinWrite(quotaExceeded) ==
    /\ pending # <<>>
    /\ \E belowHalf \in BOOLEAN, imageIndex \in ImageIndexes :
         LET spinResult == generateSpinResult(belowHalf, imageIndex)
             payout == calculatePayout(Head(pending).wager, spinResult.outcome)
             newState == processSpinNewState(GameStateOf(cache), spinResult.outcome, payout)
         IN  /\ result' = <<spinResult>>
             /\ lastOutcome' = spinResult.outcome
             /\ isSpinning' = FALSE
             /\ Mutation(newState, quotaExceeded)
    /\ pending' = Tail(pending)
    /\ resolved' = resolved + 1
    /\ lastOp' = "processSpin"
    /\ UNCHANGED <<view, call, updates, inFlight>>

ResolveSpin == ResolveSpinWrite(FALSE)

\* updateWagerMutation: mutationFn, then onSuccess.
UpdateWager(newWager, quotaExceeded) ==
    LET newState == updateWagerNewState(GameStateOf(cache), newWager)
    IN  Mutation(newState, quotaExceeded)

\* WalletDisplay.increaseWager
IncreaseWagerWrite(quotaExceeded) ==
    /\ updates < MaxUpdates
    /\ updates' = updates + 1
    /\ UpdateWager(Min(Min(view.gameState.wager + WagerStep, maxWager), view.gameState.wallet),
                   quotaExceeded)
    /\ lastOp' = "increaseWager"
    /\ UNCHANGED <<isSpinning, result, lastOutcome, view, pending, resolved, call, inFlight>>

IncreaseWager == IncreaseWagerWrite(FALSE)

\* WalletDisplay.decreaseWager
DecreaseWagerWrite(quotaExceeded) ==
    /\ updates < MaxUpdates
    /\ updates' = updates + 1
    /\ UpdateWager(Max(view.gameState.wager - WagerStep, minWager), quotaExceeded)
    /\ lastOp' = "decreaseWager"
    /\ UNCHANGED <<isSpinning, result, lastOutcome, view, pending, resolved, call, inFlight>>

DecreaseWager == DecreaseWagerWrite(FALSE)

\* The Reset Game button, confirmed: resetGameMutation (mutationFn only, the
\* mutation has no onSuccess), setLastOutcome(null), setResult(null).
ResetGame ==
    /\ storage' = clearGameState
    /\ lastOutcome' = "null"
    /\ result' = <<>>
    /\ resolved' = 0
    /\ lastOp' = "resetGame"
    /\ UNCHANGED <<cache, isSpinning, view, pending, call, updates, inFlight>>

\* The page is loaded again: component state and suspended calls are gone,
\* the query runs loadGameState, the first render shows its data.
Reload ==
    /\ lastOp # "reload"
    /\ cache' = <<loadGameState(storage)>>
    /\ isSpinning' = FALSE
    /\ result' = <<>>
    /\ lastOutcome' = "null"
    /\ pending' = <<>>
    /\ view' = Rendered(<<loadGameState(storage)>>, FALSE)
    /\ lastOp' = "reload"
    /\ UNCHANGED <<storage, resolved, call, updates, inFlight>>

\* A game session on the page: the branches of the handlers a session reaches.
Next ==
    \/ Render
    \/ HandleLeverPullIgnored
    \/ HandleLeverPullAccepted
    \/ ResolveSpin
    \/ IncreaseWager
    \/ DecreaseWager
    \/ ResetGame
    \/ Reload

Spec == Init /\ [][Next]_vars

(***************************************************************************)
(* A session on a page that stays open: the timer of every suspended      *)
(* handleLeverPull fires, so ResolveSpin is taken when it stays enabled.   *)
(***************************************************************************)
NextLive ==
    \/ Render
    \/ HandleLeverPullIgnored
    \/ HandleLeverPullAccepted
    \/ ResolveSpin
    \/ ResetGame

SpecLive == Init /\ [][NextLive]_vars /\ WF_vars(ResolveSpin)

(***************************************************************************)
(* The hook used directly: updateGameState with any state, and the lever   *)
(* handler with all its branches.                                          *)
(***************************************************************************)
\* States handed to updateGameState.
UpdateInputs ==
    { [wallet |-> 100, wager |-> 150, wins |-> 0, losses |-> 0],
      [wallet |-> 50, wager |-> 50, wins |-> 0, losses |-> 0] }

\* updateStateMutation: mutationFn, then onSuccess.
UpdateGameStateWrite(quotaExceeded) ==
    /\ updates < MaxUpdates
    /\ updates' = updates + 1
    /\ \E newState \in UpdateInputs :
         /\ GameStateOf(cache) # newState
         /\ Mutation(newState, quotaExceeded)
    /\ lastOp' = "updateGameState"
    /\ UNCHANGED <<isSpinning, result, lastOutcome, view, pending, resolved, call, inFlight>>

UpdateGameState == UpdateGameStateWrite(FALSE)

NextHook ==
    \/ Render
    \/ HandleLeverPull
    \/ ResolveSpin
    \/ IncreaseWager
    \/ DecreaseWager
    \/ ResetGame
    \/ Reload
    \/ UpdateGameState

SpecHook == Init /\ [][NextHook]_vars

(***************************************************************************)
(* The hook while localStorage is full: updateGameState may still get its  *)
(* record written, every other write (and updateGameState too) fails.      *)
(***************************************************************************)
ResolveSpinQuotaExceeded == ResolveSpinWrite(TRUE)

IncreaseWagerQuotaExceeded == IncreaseWagerWrite(TRUE)

DecreaseWagerQuotaExceeded == DecreaseWagerWrite(TRUE)

UpdateGameStateQuotaExceeded == UpdateGameStateWrite(TRUE)

NextQuota ==
    \/ Render
    \/ HandleLeverPullIgnored
    \/ HandleLeverPullAccepted
    \/ ResolveSpinQuotaExceeded
    \/ IncreaseWagerQuotaExceeded
    \/ DecreaseWagerQuotaExceeded
    \/ UpdateGameState
    \/ UpdateGameStateQuotaExceeded

SpecQuota == Init /\ [][NextQuota]_vars

(***************************************************************************)
(* The page mounted over a record that is already in localStorage: the     *)
(* wager buttons and the lever with balances below the page's minimum.     *)
(***************************************************************************)
\* Records found in localStorage when the page mounts.
StoredStates ==
    UpdateInputs \cup
    { DEFAULT_GAME_STATE,
      [wallet |-> 50, wager |-> 150, wins |-> 0, losses |-> 0] }

\* useQuery runs loadGameState over the stored record; the first render shows it.
InitStored ==
    /\ \E s \in StoredStates :
         /\ storage = <<JSONstringify(s)>>
         /\ cache = <<loadGameState(<<JSONstringify(s)>>)>>
         /\ view = Rendered(<<loadGameState(<<JSONstringify(s)>>)>>, FALSE)
    /\ isSpinning = FALSE
    /\ result = <<>>
    /\ lastOutcome = "null"
    /\ pending = <<>>
    /\ resolved = 0
    /\ lastOp = "init"
    /\ call = NoCall
    /\ updates = 0
    /\ inFlight = <<>>

NextStored ==
    \/ Render
    \/ HandleLeverPull
    \/ ResolveSpin
    \/ IncreaseWager
    \/ DecreaseWager

SpecStored == InitStored /\ [][NextStored]_vars

(***************************************************************************)
(* The mutations of the hook in their two steps: mutationFn reads the      *)
(* cache, saves and returns newState; onSuccess writes the returned state  *)
(* to the cache later. A mutation issued in between runs its mutationFn    *)
(* before the onSuccess of the earlier one.                                *)
(***************************************************************************)
\* Arguments of processSpin.
SpinInputs == { [outcome |-> o, payout |-> p] : o \in Outcomes, p \in {50, 100} }

\* Arguments of updateWager.
WagerInputs == {100, 150}

\* processSpinMutation.mutationFn
ProcessSpinMutationFn ==
    /\ updates < MaxMutations
    /\ updates' = updates + 1
    /\ \E input \in SpinInputs :
         LET current == GameStateOf(cache)
             newState == processSpinNewState(current, input.outcome, input.payout)
         IN  /\ storage' = saveGameState(storage, newState, FALSE).store
             /\ inFlight' = Append(inFlight, [fn |-> "processSpin", current |-> current,
                                              data |-> newState])
    /\ lastOp' = "processSpinFn"
    /\ UNCHANGED <<cache, isSpinning, result, lastOutcome, view, pending, resolved, call>>

\* updateWagerMutation.mutationFn
UpdateWagerMutationFn ==
    /\ updates < MaxMutations
    /\ updates' = updates + 1
    /\ \E newWager \in WagerInputs :
         LET current == GameStateOf(cache)
             newState == updateWagerNewState(current, newWager)
         IN  /\ storage' = saveGameState(storage, newState, FALSE).store
             /\ inFlight' = Append(inFlight, [fn |-> "updateWager", current |-> current,
                                              data |-> newState])
    /\ lastOp' = "updateWagerFn"
    /\ UNCHANGED <<cache, isSpinning, result, lastOutcome, view, pending, resolved, call>>

\* onSuccess of the oldest mutation in flight: setQueryData(QUERY_KEY, data).
MutationOnSuccess ==
    /\ inFlight # <<>>
    /\ cache' = <<Head(inFlight).data>>
    /\ inFlight' = Tail(inFlight)
    /\ lastOp' = IF Head(inFlight).fn = "processSpin" THEN "processSpinSuccess"
                                                      ELSE "updateWagerSuccess"
    /\ UNCHANGED <<storage, isSpinning, result, lastOutcome, view, pending, resolved,
                   call, updates>>

NextMutations ==
    \/ ProcessSpinMutationFn
    \/ UpdateWagerMutationFn
    \/ MutationOnSuccess

SpecMutations == Init /\ [][NextMutations]_vars

(***************************************************************************)
(* The page driven through its buttons: a click reaches its handler only   *)
(* when the button of the last committed render is not disabled, and the   *)
(* state a click handler sets is rendered before the next event.           *)
(***************************************************************************)
\* Reset Game button whose disabled attribute is missing.
ResetDisabled_never == FALSE

\* disabled of the Reset Game button.
ResetDisabled == view.isSpinning

\* disabled of the Lever.
LeverDisabled ==
    view.isSpinning \/ ~canPlaceBet(view.gameState.wallet, view.gameState.wager)

\* disabled of the decrease button of WalletDisplay.
DecreaseDisabled == view.isSpinning \/ view.gameState.wager <= minWager

\* disabled of the increase button of WalletDisplay.
IncreaseDisabled ==
    \/ view.isSpinning
    \/ view.gameState.wager = maxWager
    \/ view.gameState.wager >= view.gameState.wallet

\* A click on the Lever: handleLeverPull up to the await, then the render
\* React commits for the state set in the click handler.
ClickLever ==
    /\ ~LeverDisabled
    /\ canPlaceBet(view.gameState.wallet, view.gameState.wager)
    /\ ~view.isSpinning
    /\ Len(pending) < MaxPending
    /\ GameStateOf(cache).wins + GameStateOf(cache).losses + Len(pending) < MaxSpins
    /\ resolved + Len(pending) < MaxSpins
    /\ isSpinning' = TRUE
    /\ lastOutcome' = "null"
    /\ result' = <<>>
    /\ pending' = Append(pending, [wager |-> view.gameState.wager])
    /\ view' = Rendered(cache, TRUE)
    /\ lastOp' = "leverAccepted"
    /\ UNCHANGED <<storage, cache, resolved, call, updates, inFlight>>

\* A click on the increase button.
ClickIncrease == ~IncreaseDisabled /\ IncreaseWager

\* A click on the decrease button.
ClickDecrease == ~DecreaseDisabled /\ DecreaseWager

\* A click on Reset Game, confirmed: resetGameMutation (mutationFn only),
\* setLastOutcome(null), setResult(null), then the render React commits if
\* one of the two changed.
ClickReset ==
    /\ ~ResetDisabled
    /\ storage' = clearGameState
    /\ lastOutcome' = "null"
    /\ result' = <<>>
    /\ resolved' = 0
    /\ view' = IF lastOutcome # "null" \/ result # <<>> THEN Rendered(cache, isSpinning)
                                                         ELSE view
    /\ lastOp' = "resetGame"
    /\ UNCHANGED <<cache, isSpinning, pending, call, updates, inFlight>>

NextUI ==
    \/ Render
    \/ ClickLever
    \/ ResolveSpin
    \/ ClickIncrease
    \/ ClickDecrease
    \/ ClickReset
    \/ Reload

SpecUI == InitStored /\ [][NextUI]_vars

(***************************************************************************)
(* The functions of lib/storage.ts called on their own, over any text the  *)
(* item may hold.                                                          *)
(***************************************************************************)
\* States handed to saveGameState.
SaveInputs ==
    StoredStates \cup { [wallet |-> 1050, wager |-> 100, wins |-> 1, losses |-> 2] }

\* Texts the item may hold when the functions are first called: '', a text
\* that is not JSON, null, a number, {}, an object whose wallet is a string,
\* an object without wins and losses, an object with a fifth property, and
\* the texts saveGameState writes.
StoredTexts ==
    { JSONstringify(s) : s \in SaveInputs } \cup
    { [syntax |-> "empty", value |-> NullValue],
      [syntax |-> "garbage", value |-> NullValue],
      [syntax |-> "json", value |-> NullValue],
      [syntax |-> "json", value |-> [kind |-> "number", members |-> {}]],
      [syntax |-> "json", value |-> [kind |-> "object", members |-> {}]],
      [syntax |-> "json", value |->
          [kind |-> "object",
           members |-> { <<"wallet", "string", 0>>, <<"wager", "number", 50>>,
                         <<"wins", "number", 0>>, <<"losses", "number", 0>> }]],
      [syntax |-> "json", value |->
          [kind |-> "object",
           members |-> { <<"wallet", "number", 500>>, <<"wager", "number", 100>> }]],
      [syntax |-> "json", value |->
          [kind |-> "object",
           members |-> ObjectOf(DEFAULT_GAME_STATE).members \cup { <<"version", "number", 1>> }]] }

InitStorage ==
    /\ storage \in {<<>>} \cup { <<text>> : text \in StoredTexts }
    /\ cache = <<>>
    /\ isSpinning = FALSE
    /\ result = <<>>
    /\ lastOutcome = "null"
    /\ view = Rendered(<<>>, FALSE)
    /\ pending = <<>>
    /\ resolved = 0
    /\ lastOp = "init"
    /\ call = NoCall
    /\ updates = 0
    /\ inFlight = <<>>

LoadOps == {"loadStored", "loadAfterSave", "loadAfterClear"}

\* saveGameState(state) while setItem works or throws.
CallSaveGameState ==
    /\ \E state \in SaveInputs, quotaExceeded \in BOOLEAN :
         LET saved == saveGameState(storage, state, quotaExceeded)
         IN  /\ storage' = saved.store
             /\ call' = [fn |-> "saveGameState", a |-> state, b |-> quotaExceeded,
                         ret |-> <<saved.threw>>]
             /\ lastOp' = IF quotaExceeded THEN "saveFailed" ELSE "saveGameState"
    /\ UNCHANGED <<cache, isSpinning, result, lastOutcome, view, pending, resolved, updates, inFlight>>

\* clearGameState()
CallClearGameState ==
    /\ storage' = clearGameState
    /\ call' = [fn |-> "clearGameState", a |-> 0, b |-> "", ret |-> <<>>]
    /\ lastOp' = "clearGameState"
    /\ UNCHANGED <<cache, isSpinning, result, lastOutcome, view, pending, resolved, updates, inFlight>>

\* loadGameState(); lastOp tells what the load follows, call.a counts the
\* loads in a row.
CallLoadGameState ==
    LET loadsInRow == IF lastOp \in LoadOps THEN call.a ELSE 0
    IN  /\ loadsInRow < MaxLoads
        /\ call' = [fn |-> "loadGameState", a |-> loadsInRow + 1, b |-> "",
                    ret |-> <<loadGameStateParsed(storage)>>]
        /\ lastOp' = CASE lastOp \in {"clearGameState", "loadAfterClear"} -> "loadAfterClear"
                      [] lastOp \in {"saveGameState", "loadAfterSave"} -> "loadAfterSave"
                      [] OTHER -> "loadStored"
        /\ UNCHANGED <<storage, cache, isSpinning, result, lastOutcome, view, pending,
                       resolved, updates, inFlight>>

NextStorage ==
    \/ CallSaveGameState
    \/ CallClearGameState
    \/ CallLoadGameState

SpecStorage == InitStorage /\ [][NextStorage]_vars

(***************************************************************************)
(* components/StatsDisplay.tsx rendered on its own.                        *)
(***************************************************************************)
\* ((wins / totalGames) * 100).toFixed(1): the decimal text <<whole, tenth>>
\* nearest to the quotient, the larger one of two equally near.
toFixed1(wins, totalGames) ==
    LET tenths == (2000 * wins + totalGames) \div (2 * totalGames)
    IN  <<tenths \div 10, tenths % 10>>

\* StatsDisplay of components/StatsDisplay.tsx: what it shows. The line
\* "N game(s) played" is commented out, so nothing is shown for it.
StatsDisplay(wins, losses) ==
    LET totalGames == wins + losses
        winRate == IF totalGames > 0 THEN toFixed1(wins, totalGames) ELSE <<0, 0>>
    IN  [wins |-> wins, losses |-> losses, winRate |-> winRate, gamesPlayed |-> <<>>,
         barWidth |-> IF winRate[1] >= 100 THEN <<100, 0>> ELSE winRate]

\* StatsDisplay of the draft, which shows "N game played" or "N games played".
StatsDisplayDraft(wins, losses) ==
    LET totalGames == wins + losses
        winRate == IF totalGames > 0 THEN toFixed1(wins, totalGames) ELSE <<0, 0>>
    IN  [wins |-> wins, losses |-> losses, winRate |-> winRate,
         gamesPlayed |-> <<totalGames, IF totalGames = 1 THEN "game" ELSE "games">>,
         barWidth |-> IF winRate[1] >= 100 THEN <<100, 0>> ELSE winRate]

RenderStatsDisplay ==
    /\ \E wins \in 0..MaxGames, losses \in 0..MaxGames :
         call' = [fn |-> "StatsDisplay", a |-> wins, b |-> losses,
                  ret |-> <<StatsDisplay(wins, losses)>>]
    /\ UNCHANGED <<storage, cache, isSpinning, result, lastOutcome, view, pending,
                   resolved, lastOp, updates, inFlight>>

RenderStatsDisplayDraft ==
    /\ \E wins \in 0..MaxGames, losses \in 0..MaxGames :
         call' = [fn |-> "StatsDisplayDraft", a |-> wins, b |-> losses,
                  ret |-> <<StatsDisplayDraft(wins, losses)>>]
    /\ UNCHANGED <<storage, cache, isSpinning, result, lastOutcome, view, pending,
                   resolved, lastOp, updates, inFlight>>

NextStats ==
    \/ RenderStatsDisplay
    \/ RenderStatsDisplayDraft

SpecStats == Init /\ [][NextStats]_vars

(***************************************************************************)
(* The functions of lib/game-logic.ts called on their own.                 *)
(***************************************************************************)
Amounts == (-MaxArg..MaxArg) \cup {-50, 20, 50, 100, 150, 1000}

CallCalculatePayout ==
    /\ \E wager \in Amounts, outcome \in Outcomes :
         call' = [fn |-> "calculatePayout", a |-> wager, b |-> outcome,
                  ret |-> <<calculatePayout(wager, outcome)>>]
    /\ UNCHANGED <<storage, cache, isSpinning, result, lastOutcome, view, pending,
                   resolved, lastOp, updates, inFlight>>

CallCanPlaceBet ==
    /\ \E wallet \in Amounts, wager \in Amounts :
         call' = [fn |-> "canPlaceBet", a |-> wallet, b |-> wager,
                  ret |-> <<canPlaceBet(wallet, wager)>>]
    /\ UNCHANGED <<storage, cache, isSpinning, result, lastOutcome, view, pending,
                   resolved, lastOp, updates, inFlight>>

CallUpdateWallet ==
    /\ \E current \in Amounts, change \in Amounts :
         call' = [fn |-> "updateWallet", a |-> current, b |-> change,
                  ret |-> <<updateWallet(current, change)>>]
    /\ UNCHANGED <<storage, cache, isSpinning, result, lastOutcome, view, pending,
                   resolved, lastOp, updates, inFlight>>

CallGenerateSpinResult ==
    /\ \E belowHalf \in BOOLEAN, imageIndex \in ImageIndexes :
         call' = [fn |-> "generateSpinResult", a |-> belowHalf, b |-> imageIndex,
                  ret |-> <<generateSpinResult(belowHalf, imageIndex)>>]
    /\ UNCHANGED <<storage, cache, isSpinning, result, lastOutcome, view, pending,
                   resolved, lastOp, updates, inFlight>>

CallGenerateSpinResultPublic ==
    /\ \E belowHalf \in BOOLEAN, imageIndex \in ImageIndexes :
         call' = [fn |-> "generateSpinResultPublic", a |-> belowHalf, b |-> imageIndex,
                  ret |-> <<generateSpinResultPublic(belowHalf, imageIndex)>>]
    /\ UNCHANGED <<storage, cache, isSpinning, result, lastOutcome, view, pending,
                   resolved, lastOp, updates, inFlight>>

NextLogic ==
    \/ CallGenerateSpinResultPublic
    \/ CallCalculatePayout
    \/ CallCanPlaceBet
    \/ CallUpdateWallet
    \/ CallGenerateSpinResult

SpecLogic == Init /\ [][NextLogic]_vars

(***************************************************************************)
(* Properties.                                                             *)
(***************************************************************************)
LeverOps == {"leverRejected", "leverIgnored", "leverAccepted"}

\* C1: for every wager > 0, calculatePayout(wager, 'win') returns wager and
\* calculatePayout(wager, 'loss') returns -wager.
C1_PayoutSign ==
    (call.fn = "calculatePayout" /\ call.a > 0) =>
        call.ret[1] = (IF call.b = "win" THEN call.a ELSE 0 - call.a)

\* C2: the wallet balance in memory and the balance of the persisted record
\* are never negative.
C2_BalanceNonNegative ==
    /\ GameStateOf(cache).wallet >= 0
    /\ storage # <<>> => loadGameState(storage).wallet >= 0

\* C2 witness: a spin was resolved as a loss and saved.
C2_Witness ==
    /\ lastOp = "processSpin"
    /\ result # <<>> /\ result[1].outcome = "loss"
    /\ storage # <<>>
    /\ loadGameState(storage).losses > 0

\* C3: a spin resolved as 'loss' for a placeable wager w on balance b leaves
\* the balance max(0, b - w - w), adds 1 to losses and leaves wins alone.
C3_LossResolution ==
    [][ LET b == GameStateOf(cache).wallet
            w == Head(pending).wager
        IN  (lastOp' = "processSpin" /\ pending # <<>> /\ Len(pending') < Len(pending)
                /\ result'[1].outcome = "loss" /\ canPlaceBet(b, w))
            => /\ GameStateOf(cache').wallet = Max(0, b - w - w)
               /\ GameStateOf(cache').losses = GameStateOf(cache).losses + 1
               /\ GameStateOf(cache').wins = GameStateOf(cache).wins ]_vars

\* C4: a spin resolved as 'win' for a placeable wager w on balance b leaves
\* the balance b - w + w = b, adds 1 to wins and leaves losses alone.
C4_WinResolution ==
    [][ LET b == GameStateOf(cache).wallet
            w == Head(pending).wager
        IN  (lastOp' = "processSpin" /\ pending # <<>> /\ Len(pending') < Len(pending)
                /\ result'[1].outcome = "win" /\ canPlaceBet(b, w))
            => /\ GameStateOf(cache').wallet = b - w + w
               /\ GameStateOf(cache').wins = GameStateOf(cache).wins + 1
               /\ GameStateOf(cache').losses = GameStateOf(cache).losses ]_vars

\* C5: at most one spin is outstanding: a lever pull made while an earlier
\* spin has not resolved is ignored.
C5_SingleFlight == Len(pending) <= 1

\* C6: after resetGame the game state the hook exposes is the default state
\* and there is no persisted record.
C6_ResetGivesDefault ==
    lastOp = "resetGame" =>
        /\ GameStateOf(cache) = DEFAULT_GAME_STATE
        /\ storage = <<>>

\* C7: wins + losses equals the number of spin resolutions completed since
\* the last reset.
C7_CountersCountResolutions ==
    GameStateOf(cache).wins + GameStateOf(cache).losses = resolved

\* C8: a lever pull made when canPlaceBet(balance, wager) is false changes
\* nothing: balance, wager, wins, losses, the persisted record, the spinning
\* flag and the suspended spins stay as they are.
C8_RejectedPullChangesNothing ==
    [][ (lastOp' \in LeverOps
            /\ ~canPlaceBet(view.gameState.wallet, view.gameState.wager))
        => UNCHANGED <<storage, cache, isSpinning, result, lastOutcome, pending, inFlight>> ]_vars

\* C8 witness: the lever was pulled with balance 100 and wager 150 and the
\* pull was rejected.
C8_Witness ==
    /\ lastOp = "leverRejected"
    /\ view.gameState.wallet = 100
    /\ view.gameState.wager = 150

C10_CanPlaceBet ==
    (call.fn = "canPlaceBet" /\ call.a >= 0) =>
        /\ call.ret[1] \in BOOLEAN
        /\ call.b <= 0 => call.ret[1] = FALSE
        /\ call.b > call.a => call.ret[1] = FALSE
        /\ call.a = 0 => call.ret[1] = FALSE
        /\ (call.b >= 1 /\ call.a - call.b >= 0) => call.ret[1] = TRUE

\* C10 witness: the whole balance is wagered and the bet is allowed.
C10_Witness ==
    /\ call.fn = "canPlaceBet"
    /\ call.a = 50 /\ call.b = 50
    /\ call.ret[1] = TRUE

\* C11: every generateSpinResult of the repository derives the outcome from
\* the type by the same mapping: 'noah' gives 'win' and 'dog' gives 'loss'.
C11_NoahWinsDogLoses ==
    call.fn \in {"generateSpinResult", "generateSpinResultPublic"} =>
        /\ call.ret[1].type = "noah" => call.ret[1].outcome = "win"
        /\ call.ret[1].type = "dog" => call.ret[1].outcome = "loss"

\* C12: whenever a bet may be placed (canPlaceBet holds for the stored state
\* and no spin is pending), the stored wager lies in
\* minWager..min(maxWager, wallet), from the default state on.
C12_WagerWithinPageBounds ==
    LET gameState == GameStateOf(cache)
    IN  (canPlaceBet(gameState.wallet, gameState.wager) /\ pending = <<>> /\ ~isSpinning) =>
            /\ minWager <= gameState.wager
            /\ gameState.wager <= Min(maxWager, gameState.wallet)

\* C13: right after increaseWager or decreaseWager the stored wager lies in
\* minWager..min(maxWager, wallet) and is placeable.
C13_WagerUpdateClamps ==
    LET gameState == GameStateOf(cache)
    IN  lastOp \in {"increaseWager", "decreaseWager"} =>
            /\ minWager <= gameState.wager
            /\ gameState.wager <= Min(maxWager, gameState.wallet)
            /\ canPlaceBet(gameState.wallet, gameState.wager)

\* C19: updateWallet(current, change) is never negative, is current + change
\* when that sum is not negative, and is 0 otherwise.
C19_UpdateWalletClamps ==
    call.fn = "updateWallet" =>
        /\ call.ret[1] >= 0
        /\ call.a + call.b >= 0 => call.ret[1] = call.a + call.b
        /\ call.a + call.b < 0 => call.ret[1] = 0

\* updateWallet(20, -50) was called and returned 0.
C19_Witness ==
    /\ call.fn = "updateWallet"
    /\ call.a = 20
    /\ call.b = -50
    /\ call.ret = <<0>>

C15_MalformedGivesDefault ==
    LET WronglyTyped(value) ==
            \/ value.kind # "object"
            \/ \E m \in value.members : m[1] \in GameStateFields /\ m[2] # "number"
        Unusable == \/ storage = <<>>
                    \/ storage[1].syntax # "json"
                    \/ WronglyTyped(storage[1].value)
    IN  (lastOp \in LoadOps /\ Unusable) => call.ret[1] = ObjectOf(DEFAULT_GAME_STATE)

\* C16: loading an object whose GameState fields are numbers, with fields
\* missing or with other properties, gives exactly the four fields: the
\* stored value of each field present, the default of each field missing.
C16_MissingFieldsDefaulted ==
    LET Names(value) == { m[1] : m \in value.members }
        Partial == /\ storage # <<>>
                   /\ storage[1].syntax = "json"
                   /\ storage[1].value.kind = "object"
                   /\ \A m \in storage[1].value.members : m[2] = "number"
                   /\ Names(storage[1].value) # GameStateFields
    IN  (lastOp \in LoadOps /\ Partial) =>
            /\ call.ret[1].kind = "object"
            /\ Names(call.ret[1]) = GameStateFields
            /\ \A f \in GameStateFields :
                   Member(call.ret[1], f) =
                       IF f \in Names(storage[1].value) THEN Member(storage[1].value, f)
                                                        ELSE Member(ObjectOf(DEFAULT_GAME_STATE), f)

\* C17: a loadGameState that follows clearGameState, with only loads in
\* between, returns the default state.
C17_ClearThenLoadGivesDefault ==
    lastOp = "loadAfterClear" => call.ret[1] = ObjectOf(DEFAULT_GAME_STATE)

\* C17 witness: the second load in a row after a clear returned the default state.
C17_Witness ==
    /\ lastOp = "loadAfterClear"
    /\ call.a = 2
    /\ call.ret[1] = ObjectOf(DEFAULT_GAME_STATE)
    /\ storage = <<>>

\* C18: a mutation whose setItem throws still completes: the persisted
\* record keeps its value and the state in memory is the new state (one more
\* resolution counted and shown, the wager replaced, the state replaced).
C18_WriteFailureSwallowed ==
    [][ /\ ResolveSpinQuotaExceeded =>
              /\ storage' = storage
              /\ GameStateOf(cache').wins + GameStateOf(cache').losses
                    = GameStateOf(cache).wins + GameStateOf(cache).losses + 1
              /\ result' # <<>>
              /\ ~isSpinning'
        /\ (IncreaseWagerQuotaExceeded \/ DecreaseWagerQuotaExceeded) =>
              /\ storage' = storage
              /\ cache' # <<>>
              /\ GameStateOf(cache') =
                    [GameStateOf(cache) EXCEPT !.wager = GameStateOf(cache').wager]
        /\ UpdateGameStateQuotaExceeded =>
              /\ storage' = storage
              /\ cache' # cache
              /\ GameStateOf(cache') \in UpdateInputs ]_vars

\* C18 witness: a spin was resolved and counted in memory while the write
\* failed, so the persisted record is still the one written before the spin.
C18_Witness ==
    /\ lastOp = "processSpin"
    /\ storage # <<>>
    /\ loadGameState(storage).wins + loadGameState(storage).losses = 0
    /\ GameStateOf(cache).wins + GameStateOf(cache).losses = 1
    /\ result # <<>>

\* C20: after a spin resolution, a wager update, a generic state update or a
\* reset, the persisted record and the state in memory agree: the record
\* holds the state in memory, or after a reset there is no record and the
\* state in memory is the default state.
C20_SavedAfterEveryMutation ==
    lastOp \in {"processSpin", "increaseWager", "decreaseWager", "updateGameState", "resetGame"} =>
        IF storage = <<>>
        THEN lastOp = "resetGame" /\ GameStateOf(cache) = DEFAULT_GAME_STATE
        ELSE lastOp # "resetGame" /\ storage = <<JSONstringify(GameStateOf(cache))>>

\* C21: in every state a call of generateSpinResult can return 'win' (with
\* its type, 'dog') and a call can return 'loss' (with the other type,
\* 'noah'): neither outcome is unreachable.
C21_BothOutcomesPossible ==
    /\ ENABLED (CallGenerateSpinResult /\ call'.ret[1].outcome = "win"
                                      /\ call'.ret[1].type = "dog")
    /\ ENABLED (CallGenerateSpinResult /\ call'.ret[1].outcome = "loss"
                                      /\ call'.ret[1].type = "noah")

\* C21 witness: a call of generateSpinResult has returned 'loss' after one
\* that could return 'win'.
C21_Witness ==
    /\ call.fn = "generateSpinResult"
    /\ call.ret[1].outcome = "loss"
    /\ \E b \in BOOLEAN, i \in ImageIndexes : generateSpinResult(b, i).outcome = "win"

C23_CounterAndBalanceAgree ==
    [][ LET before == GameStateOf(cache)
            after == GameStateOf(cache')
        IN  (lastOp' = "processSpin" /\ pending # <<>> /\ Len(pending') < Len(pending)) =>
                /\ lastOutcome' \in Outcomes
                /\ lastOutcome' = "win" =>
                      /\ after.wins = before.wins + 1
                      /\ after.losses = before.losses
                      /\ after.wallet > before.wallet
                /\ lastOutcome' = "loss" =>
                      /\ after.losses = before.losses + 1
                      /\ after.wins = before.wins
                      /\ after.wallet < before.wallet ]_vars

\* C24: in every render with isSpinning true the lever, both wager buttons
\* and the reset button are disabled, the lever is disabled too when
\* canPlaceBet is false for the rendered state, and while a spin is pending
\* no wager update, no reset and no second lever pull takes effect.
C24_ControlsDisabledWhileSpinning ==
    [][ /\ view.isSpinning =>
              LeverDisabled /\ IncreaseDisabled /\ DecreaseDisabled /\ ResetDisabled
        /\ ~canPlaceBet(view.gameState.wallet, view.gameState.wager) => LeverDisabled
        /\ (isSpinning \/ pending # <<>>) =>
              lastOp' \notin {"increaseWager", "decreaseWager", "resetGame", "leverAccepted"} ]_vars

\* C24 witness: a spin is pending and rendered as spinning while the rendered
\* state would otherwise leave the lever and the decrease button enabled.
C24_Witness ==
    /\ pending # <<>>
    /\ isSpinning
    /\ view.isSpinning
    /\ canPlaceBet(view.gameState.wallet, view.gameState.wager)
    /\ view.gameState.wager > minWager
    /\ LeverDisabled /\ DecreaseDisabled /\ ResetDisabled

\* C27: when a spin resolves, the wager handleLeverPull captured at the pull
\* (the one its payout is computed from) is the wager stored in the game
\* state at that moment.
C27_PayoutFromStoredWager ==
    [][ (lastOp' = "processSpin" /\ pending # <<>>) =>
            Head(pending).wager = GameStateOf(cache).wager ]_vars

\* C26: every accepted lever pull resolves: a spinning game comes to show a
\* result with isSpinning false after a processSpin, and every suspended
\* pull leaves the queue through its own processSpin.
C26_EveryPullResolves ==
    /\ isSpinning ~> (~isSpinning /\ result # <<>> /\ lastOp = "processSpin")
    /\ \A n \in 1..(MaxPending + 1) :
          (Len(pending) = n) ~> (Len(pending) = n - 1 /\ lastOp = "processSpin")

\* C26 witness: the one accepted pull has been resolved and is shown.
C26_Witness ==
    /\ lastOp = "processSpin"
    /\ resolved = 1
    /\ pending = <<>>
    /\ ~isSpinning
    /\ result # <<>>
    /\ lastOutcome \in Outcomes

\* C28: no lost update: when the onSuccess of a mutation writes the cache,
\* what the other mutation wrote stays: the onSuccess of updateWager leaves
\* wallet, wins and losses of the cached state as they are, the onSuccess of
\* processSpin leaves its wager as it is.
C28_NoLostUpdate ==
    [][ LET before == GameStateOf(cache)
            after == GameStateOf(cache')
        IN  /\ lastOp' = "updateWagerSuccess" =>
                  /\ after.wallet = before.wallet
                  /\ after.wins = before.wins
                  /\ after.losses = before.losses
            /\ lastOp' = "processSpinSuccess" => after.wager = before.wager ]_vars

\* C29: frame conditions of the mutations: the state updateWager builds and
\* saves differs from the state it read in the wager only, and the state
\* processSpin builds and saves has the wager of the state it read.
C29_MutationFrames ==
    [][ LET issued == inFlight'[Len(inFlight')]
            read == GameStateOf(cache)
        IN  /\ lastOp' = "updateWagerFn" =>
                  /\ issued.data.wallet = read.wallet
                  /\ issued.data.wins = read.wins
                  /\ issued.data.losses = read.losses
                  /\ loadGameState(storage') = issued.data
            /\ lastOp' = "processSpinFn" =>
                  /\ issued.data.wager = read.wager
                  /\ loadGameState(storage') = issued.data ]_vars

\* C29 witness: updateWager has built a state with a new wager from a state
\* that already counts a win.
C29_Witness ==
    /\ lastOp = "updateWagerFn"
    /\ inFlight # <<>>
    /\ inFlight[Len(inFlight)].fn = "updateWager"
    /\ inFlight[Len(inFlight)].current.wins = 1
    /\ inFlight[Len(inFlight)].data.wins = 1
    /\ inFlight[Len(inFlight)].data.wager # inFlight[Len(inFlight)].current.wager

\* C25: every result of generateSpinResult has an image index in 1..12 and
\* an image path in the pool of its own type: /noah/noah-N.jpg for 'noah',
\* /dogs/dog-N.jpg for 'dog'.
C25_ImageOfOwnType ==
    call.fn = "generateSpinResult" =>
        LET spinResult == call.ret[1]
        IN  /\ spinResult.type \in Types
            /\ spinResult.image[2] \in 1..12
            /\ spinResult.image[3] = ".jpg"
            /\ spinResult.type = "noah" => spinResult.image[1] = "/noah/noah-"
            /\ spinResult.type = "dog" => spinResult.image[1] = "/dogs/dog-"

\* C25 witness: a 'dog' result with the last image of the dogs pool.
C25_Witness ==
    /\ call.fn = "generateSpinResult"
    /\ call.ret[1].type = "dog"
    /\ call.ret[1].image = <<"/dogs/dog-", 12, ".jpg">>

\* C30: StatsDisplay shows the win rate wins / (wins + losses) as a
\* percentage with one decimal (7 wins and 3 losses: 70.0), 0.0 when no game
\* was played, never more than 100, and the number of games played with
\* 'game' for exactly 1 and 'games' otherwise.
C30_StatsDisplayShows ==
    call.fn = "StatsDisplay" =>
        LET shown == call.ret[1]
            totalGames == call.a + call.b
            tenths == 10 * shown.winRate[1] + shown.winRate[2]
            distance == IF tenths * totalGames >= 1000 * call.a
                        THEN tenths * totalGames - 1000 * call.a
                        ELSE 1000 * call.a - tenths * totalGames
        IN  /\ shown.winRate[2] \in 0..9
            /\ totalGames = 0 => shown.winRate = <<0, 0>>
            /\ totalGames > 0 => 2 * distance <= totalGames
            /\ (call.a = 7 /\ call.b = 3) => shown.winRate = <<70, 0>>
            /\ tenths <= 1000
            /\ shown.gamesPlayed = <<totalGames, IF totalGames = 1 THEN "game" ELSE "games">>
====
